---- MODULE Spec2Model ----
(***************************************************************************)
(* Resumable transfer engine of google_photos_transfer_app.py:             *)
(* the SQLite state store (TransferDB), TransferApp.process_folder and     *)
(* TransferApp.start_transfer, with process crashes between any two        *)
(* durable writes / remote calls.                                          *)
(***************************************************************************)
EXTENDS Integers, Sequences, FiniteSets, TLC

\* ------------------------------------------------------------------------
\* Bounds of the exploration
\* ------------------------------------------------------------------------
\* faults injected in one behaviour: remote errors, media items missing from
\* a commit result, process crashes
MaxFaults == 1
\* process_folder invocations
MaxCalls == 2
\* length of the transfer queue
MaxQueue == 2
\* add_media_items_to_album requests that the remote side carries out
MaxAdds == 1

\* ------------------------------------------------------------------------
\* Program constants
\* ------------------------------------------------------------------------
BATCH_SIZE == 10

\* ------------------------------------------------------------------------
\* Strings as character sequences (str.lower, str.startswith, splitext)
\* ------------------------------------------------------------------------
Chars ==
  "Big" :> <<"B","i","g">> @@
  "Trip" :> <<"T","r","i","p">> @@
  "Photos from 2019" :> <<"P","h","o","t","o","s"," ","f","r","o","m"," ","2","0","1","9">> @@
  "photos from 2020" :> <<"p","h","o","t","o","s"," ","f","r","o","m"," ","2","0","2","0">> @@
  "Empty" :> <<"E","m","p","t","y">> @@
  "A" :> <<"A">> @@
  "f1.jpg" :> <<"f","1",".","j","p","g">> @@
  "f2.png" :> <<"f","2",".","p","n","g">> @@
  "f3.mp4" :> <<"f","3",".","m","p","4">> @@
  "b01.jpg" :> <<"b","0","1",".","j","p","g">> @@
  "b02.JPG" :> <<"b","0","2",".","J","P","G">> @@
  "b03.png" :> <<"b","0","3",".","p","n","g">> @@
  "b04.jpeg" :> <<"b","0","4",".","j","p","e","g">> @@
  "b05.gif" :> <<"b","0","5",".","g","i","f">> @@
  "b06.bmp" :> <<"b","0","6",".","b","m","p">> @@
  "b07.webp" :> <<"b","0","7",".","w","e","b","p">> @@
  "b08.jpg" :> <<"b","0","8",".","j","p","g">> @@
  "b09.jpg" :> <<"b","0","9",".","j","p","g">> @@
  "b10.jpg" :> <<"b","1","0",".","j","p","g">> @@
  "b11.jpg" :> <<"b","1","1",".","j","p","g">> @@
  "clip.mp4" :> <<"c","l","i","p",".","m","p","4">> @@
  "notes.txt" :> <<"n","o","t","e","s",".","t","x","t">> @@
  "t1.jpg" :> <<"t","1",".","j","p","g">> @@
  "t2.PNG" :> <<"t","2",".","P","N","G">> @@
  "p1.jpg" :> <<"p","1",".","j","p","g">> @@
  "p2.gif" :> <<"p","2",".","g","i","f">> @@
  "readme.txt" :> <<"r","e","a","d","m","e",".","t","x","t">> @@
  "photos from" :> <<"p","h","o","t","o","s"," ","f","r","o","m">> @@
  ".jpg" :> <<".","j","p","g">> @@
  ".jpeg" :> <<".","j","p","e","g">> @@
  ".png" :> <<".","p","n","g">> @@
  ".gif" :> <<".","g","i","f">> @@
  ".bmp" :> <<".","b","m","p">> @@
  ".webp" :> <<".","w","e","b","p">> @@
  "quota" :> <<"q","u","o","t","a">> @@
  "429" :> <<"4","2","9">> @@
  "Quota exceeded" :> <<"Q","u","o","t","a"," ","e","x","c","e","e","d","e","d">> @@
  "HttpError 429" :> <<"H","t","t","p","E","r","r","o","r"," ","4","2","9">> @@
  "Connection reset" :> <<"C","o","n","n","e","c","t","i","o","n"," ","r","e","s","e","t">> @@
  "Too Many Requests" :> <<"T","o","o"," ","M","a","n","y"," ","R","e","q","u","e","s","t","s">> @@
  "IMG_1429.jpg" :> <<"I","M","G","_","1","4","2","9",".","j","p","g">> @@
  "src" :> <<"s","r","c">> @@
  "src2" :> <<"s","r","c","2">> @@
  "/" :> <<"/">> @@
  "Upload failed for " :> <<"U","p","l","o","a","d"," ","f","a","i","l","e","d"," ","f","o","r"," ">> @@
  ": b'" :> <<":"," ","b","'">> @@
  "'" :> <<"'">> @@
  "[Errno 2] No such file or directory: '" :>
    <<"[","E","r","r","n","o"," ","2","]"," ","N","o"," ","s","u","c","h"," ","f","i","l","e"," ",
      "o","r"," ","d","i","r","e","c","t","o","r","y",":"," ","'">>

UpperLetters ==
  <<"A","B","C","D","E","F","G","H","I","J","K","L","M",
    "N","O","P","Q","R","S","T","U","V","W","X","Y","Z">>

LowerLetters ==
  <<"a","b","c","d","e","f","g","h","i","j","k","l","m",
    "n","o","p","q","r","s","t","u","v","w","x","y","z">>

\* str.lower() on one character
LowerChar(c) ==
  IF \E n \in 1..26 : UpperLetters[n] = c
    THEN LowerLetters[CHOOSE n \in 1..26 : UpperLetters[n] = c]
    ELSE c

\* str.lower()
Lower(s) == [n \in 1..Len(s) |-> LowerChar(s[n])]

\* one character in upper case
UpperChar(c) ==
  IF \E n \in 1..26 : LowerLetters[n] = c
    THEN UpperLetters[CHOOSE n \in 1..26 : LowerLetters[n] = c]
    ELSE c

\* a string in upper case
Upper(s) == [n \in 1..Len(s) |-> UpperChar(s[n])]

\* str.startswith(prefix)
StartsWith(s, prefix) ==
  /\ Len(s) >= Len(prefix)
  /\ SubSeq(s, 1, Len(prefix)) = prefix

\* os.path.splitext(f)[1]: from the last dot on, empty when there is no dot
\* or when the only dots lead the name
SplitExt(s) ==
  LET dots == {n \in 1..Len(s) : s[n] = "." /\ \E k \in 1..(n-1) : s[k] # "."}
  IN  IF dots = {} THEN <<>>
      ELSE SubSeq(s, CHOOSE n \in dots : \A k \in dots : k <= n, Len(s))

\* ------------------------------------------------------------------------
\* The local file tree: folder name -> files in os.walk order
\* ------------------------------------------------------------------------
BigFolder ==
  "Big" :> <<"b01.jpg","b02.JPG","b03.png","b04.jpeg","b05.gif","b06.bmp",
             "b07.webp","b08.jpg","b09.jpg","b10.jpg","b11.jpg",
             "clip.mp4","notes.txt">>

SmallFolders ==
  "Trip" :> <<"t1.jpg","t2.PNG">> @@
  "Photos from 2019" :> <<"p1.jpg","p2.gif">>

EmptyFolders ==
  "photos from 2020" :> <<>> @@
  "Empty" :> <<"readme.txt">>

ScenarioFolder ==
  "A" :> <<"f1.jpg","f2.png","f3.mp4">>

\* a folder that two parent directories hold under the same name
OtherTrip ==
  "Trip" :> <<"t1.jpg">>

\* the folder of that name under the second parent; one of its files has
\* the digits 429 in its name
OddTrip ==
  "Trip" :> <<"t1.jpg","IMG_1429.jpg">>

\* the sub-folders a parent directory may hold
Trees == {BigFolder, SmallFolders, EmptyFolders, ScenarioFolder, OtherTrip, OddTrip}

FolderNames == UNION {DOMAIN t : t \in Trees}

\* os.listdir(...).sort(): the folder names in the order of sorted()
SortedNames ==
  <<"A", "Big", "Empty", "Photos from 2019", "Trip", "photos from 2020">>

\* the parent directories the Browse dialog can return
Roots == {"src", "src2"}

\* the local disks of the model: parent directory -> sub-folders
Disks ==
  { "src" :> BigFolder,
    "src" :> SmallFolders,
    ("src" :> OtherTrip) @@ ("src2" :> OddTrip),
    "src" :> EmptyFolders,
    "src" :> ScenarioFolder }

\* the local disk of this run of the model
VARIABLE disk

\* A path is its components plus the way it is spelled
Styles == {"plain", "trailing_slash"}

\* Path(source_parent) / d
FolderIn(root, name) == [parts |-> <<root, name>>, style |-> "plain"]

FolderPath(name) == FolderIn("src", name)

NoPath == [parts |-> <<>>, style |-> "plain"]

\* pathlib.Path(p).as_posix(): a trailing separator is dropped, the letter
\* case of the spelling is kept
AsPosix(p) ==
  [parts |-> p.parts,
   style |-> IF p.style = "trailing_slash" THEN "plain" ELSE p.style]

\* os.path.basename
Basename(p) == p.parts[Len(p.parts)]

\* os.path.join(root, f)
Join(root, f) ==
  [parts |-> Append(root.parts, f),
   style |-> IF root.style = "trailing_slash" THEN "plain" ELSE root.style]

Folders == {FolderIn(r, n) : r \in Roots, n \in FolderNames}

\* os.path.isdir: the folder is on the disk
OnDisk(p) ==
  /\ Len(p.parts) = 2
  /\ p.parts[1] \in DOMAIN disk
  /\ p.parts[2] \in DOMAIN disk[p.parts[1]]

\* the same folders named with other letter case (a root typed differently
\* on a file system that ignores case)
CaseSpellings ==
  [parts : {<<r, n>> : r \in Roots, n \in FolderNames}, style : {"other_case"}]

\* the paths a client of the engine passes to process_folder: an album name
\* and a loose-media name under one parent and an album name under another,
\* each in every spelling; on most disks some of them name no directory
ClientPaths ==
  [parts : {<<"src", "Trip">>, <<"src", "Photos from 2019">>, <<"src2", "Trip">>},
   style : Styles \cup {"other_case"}]

\* the folder of the scenario in every spelling
ScenarioPaths == [parts : {<<"src", "A">>}, style : Styles \cup {"other_case"}]

\* str(path): the components joined by the separator; the spelling of other
\* letter case has the parent directory in capitals
RECURSIVE PathText(_)
PathText(p) ==
  IF Len(p.parts) = 0 THEN <<>>
  ELSE IF Len(p.parts) = 1
    THEN IF p.style = "other_case" THEN Upper(Chars[p.parts[1]]) ELSE Chars[p.parts[1]]
    ELSE PathText([p EXCEPT !.parts = SubSeq(@, 1, Len(@) - 1)])
           \o Chars["/"] \o Chars[p.parts[Len(p.parts)]]

\* os.walk(folder_path): every file below the folder, joined to its root;
\* nothing when the path is no directory
Walk(folder_path) ==
  IF OnDisk(folder_path)
    THEN LET files == disk[folder_path.parts[1]][folder_path.parts[2]]
         IN  [n \in 1..Len(files) |-> Join(folder_path, files[n])]
    ELSE <<>>

Range(s) == {s[n] : n \in 1..Len(s)}

\* ------------------------------------------------------------------------
\* TransferDB: tables are functions whose domain is the set of stored keys
\* ------------------------------------------------------------------------
NULL == <<>>

\* get_folder_resumption_data: the row, or no row
HasFolderRow(folders, folder_path) == AsPosix(folder_path) \in DOMAIN folders

get_folder_resumption_data(folders, folder_path) == folders[AsPosix(folder_path)]

\* a new row inserted with status processed
set_folder_album_DefaultProcessed(folders, folder_path, album_id) ==
  LET key == AsPosix(folder_path)
  IN  [k \in DOMAIN folders \cup {key} |->
         IF k = key
           THEN [album_id |-> album_id,
                 status |-> IF key \in DOMAIN folders
                              THEN folders[key].status ELSE "processed"]
           ELSE folders[k]]

\* the write is lost
set_folder_album_NotCommitted(folders, folder_path, album_id) == folders

\* INSERT ... ON CONFLICT(path) DO UPDATE SET album_id
set_folder_album(folders, folder_path, album_id) ==
  LET key == AsPosix(folder_path)
  IN  [k \in DOMAIN folders \cup {key} |->
         IF k = key
           THEN [album_id |-> album_id,
                 status |-> IF key \in DOMAIN folders
                              THEN folders[key].status ELSE "pending"]
           ELSE folders[k]]

\* the status written as an upsert
set_folder_status_Upsert(folders, folder_path, status) ==
  LET key == AsPosix(folder_path)
  IN  [k \in DOMAIN folders \cup {key} |->
         IF k = key
           THEN [album_id |-> IF key \in DOMAIN folders
                                THEN folders[key].album_id ELSE NULL,
                 status |-> status]
           ELSE folders[k]]

\* UPDATE folders SET status WHERE path: touches existing rows only
set_folder_status(folders, folder_path, status) ==
  LET key == AsPosix(folder_path)
  IN  [k \in DOMAIN folders |->
         IF k = key THEN [folders[k] EXCEPT !.status = status] ELSE folders[k]]

is_file_uploaded(files, file_path) ==
  LET key == AsPosix(file_path)
  IN  key \in DOMAIN files /\ files[key].status = "uploaded"

\* INSERT ... ON CONFLICT(path) DO UPDATE SET status = 'uploaded'
mark_file_uploaded(files, file_path, folder_path) ==
  LET key == AsPosix(file_path)
  IN  [k \in DOMAIN files \cup {key} |->
         IF k = key
           THEN [folder_path |-> IF key \in DOMAIN files
                                   THEN files[key].folder_path
                                   ELSE AsPosix(folder_path),
                 status |-> "uploaded"]
           ELSE files[k]]

\* refresh_folder_list: the status shown for a folder
GetFolderStatus(folders, folder_path) ==
  IF HasFolderRow(folders, folder_path)
       /\ get_folder_resumption_data(folders, folder_path).status = "processed"
    THEN "Uploaded" ELSE "Ready"

\* refresh_folder_list: the rows of the check list, rebuilt from the
\* sub-folders of the parent directory and the store; no parent, no rows
refresh_folder_list(folders, parent, subdirs) ==
  IF parent = ""
    THEN <<>>
    ELSE LET names == SelectSeq(SortedNames, LAMBDA d : d \in subdirs)
         IN  [n \in 1..Len(names) |->
                LET display_status == GetFolderStatus(folders, FolderIn(parent, names[n]))
                IN  [icon |-> IF display_status = "Ready" THEN "[ ]" ELSE "[x]",
                     name |-> names[n],
                     status |-> display_status]]

\* ------------------------------------------------------------------------
\* Pure parts of process_folder
\* ------------------------------------------------------------------------
\* substring test: sub in s
Contains(s, sub) ==
  \E n \in 1..(Len(s) - Len(sub) + 1) : SubSeq(s, n, n + Len(sub) - 1) = sub

\* "quota" in error_msg.lower() or "429" in error_msg
IsQuotaError(error_msg) ==
  \/ Contains(Lower(error_msg), Chars["quota"])
  \/ Contains(error_msg, Chars["429"])

\* the prefix compared without lower()
is_album_CaseSensitive(folder_name) ==
  ~ StartsWith(Chars[folder_name], Chars["photos from"])

\* is_album = not folder_name.lower().startswith("photos from")
is_album(folder_name) ==
  ~ StartsWith(Lower(Chars[folder_name]), Chars["photos from"])

image_extensions ==
  {Chars[".jpg"], Chars[".jpeg"], Chars[".png"], Chars[".gif"],
   Chars[".bmp"], Chars[".webp"]}

\* ext = os.path.splitext(f)[1].lower(); ext in image_extensions
IsImageFile(f) == Lower(SplitExt(Chars[f])) \in image_extensions

\* all_files: the image files met by os.walk, in walk order
all_files(folder_path) ==
  SelectSeq(Walk(folder_path), LAMBDA p : IsImageFile(Basename(p)))

\* files_to_upload = [f for f in all_files if not db.is_file_uploaded(f)]
files_to_upload(files, folder_path) ==
  SelectSeq(all_files(folder_path), LAMBDA p : ~ is_file_uploaded(files, p))

\* the record says the folder is finished (status == "processed")
AlreadyProcessed(folders, folder_path) ==
  /\ HasFolderRow(folders, folder_path)
  /\ get_folder_resumption_data(folders, folder_path).status = "processed"

\* existing_album_id read from the record, None without a record
existing_album_id(folders, folder_path) ==
  IF HasFolderRow(folders, folder_path)
    THEN get_folder_resumption_data(folders, folder_path).album_id
    ELSE NULL

\* upload token returned by upload_bytes for a file (opaque, one per upload)
Token(file_path) == <<"token", file_path>>

\* batch_create_media_items: the ids of the results that carry a mediaItem;
\* missing = the tokens whose result carries none
batch_create_media_items(upload_tokens, missing) ==
  SelectSeq(upload_tokens, LAMBDA t : t \notin missing)

\* batch = files_to_upload[i : i + BATCH_SIZE], as its length
BatchLen(files, i) ==
  IF Len(files) - i < BATCH_SIZE THEN Len(files) - i ELSE BATCH_SIZE

\* the subsets of S of at most n elements
RECURSIVE SubsetsUpTo(_, _)
SubsetsUpTo(S, n) ==
  IF n <= 0 THEN {{}}
  ELSE LET smaller == SubsetsUpTo(S, n - 1)
       IN  smaller \cup {x \cup {e} : x \in smaller, e \in S}

\* ------------------------------------------------------------------------
\* What the remote service may answer
\* ------------------------------------------------------------------------
\* str(e) of the errors the client library raises in create_album and
\* batch_create_media_items
ErrorTexts == {"Quota exceeded", "HttpError 429", "Connection reset"}

\* the ways upload_bytes fails: open() raises because the file cannot be
\* read, http.request raises before there is an answer (text: str(e) of the
\* transport error), or the endpoint answers with a status other than 200
\* (text: the body)
UploadFailures ==
  { [kind |-> "open", status |-> 0, text |-> ""],
    [kind |-> "transport", status |-> 0, text |-> "Connection reset"],
    [kind |-> "answer", status |-> 429, text |-> "Quota exceeded"],
    [kind |-> "answer", status |-> 429, text |-> "Too Many Requests"],
    [kind |-> "answer", status |-> 500, text |-> "Connection reset"] }

\* str(e) of the exception that leaves upload_bytes: the OSError of open()
\* names the path, the transport error is passed on as it is, and the
\* RuntimeError of line 178 holds the path of the file and the body of the
\* answer, not the status
UploadError(file_path, failure) ==
  CASE failure.kind = "open" ->
         Chars["[Errno 2] No such file or directory: '"] \o PathText(file_path) \o Chars["'"]
    [] failure.kind = "transport" -> Chars[failure.text]
    [] failure.kind = "answer" ->
         Chars["Upload failed for "] \o PathText(file_path) \o Chars[": b'"]
           \o Chars[failure.text] \o Chars["'"]

\* the failure is a quota failure of the service: an answer with the status
\* of too many requests or with a body that names the quota
QuotaType(failure) ==
  /\ failure.kind = "answer"
  /\ \/ failure.status = 429
     \/ Contains(Lower(Chars[failure.text]), Chars["quota"])

\* the requests a client makes with add_media_items_to_album: an album id
\* and the ids of media items
AddableItems ==
  { [path |-> Join(FolderPath("Trip"), "t1.jpg"), album_id |-> <<"Trip", 1>>],
    [path |-> Join(FolderPath("Photos from 2019"), "p1.jpg"), album_id |-> NULL],
    [path |-> Join(FolderPath("A"), "f1.jpg"), album_id |-> <<"A", 1>>] }

AddRequests ==
  [album_id : {<<"Trip", 1>>, <<"Trip", 2>>}, media_item_ids : (SUBSET AddableItems) \ {{}}]

NoLegacy == [exists |-> FALSE, data |-> <<>>]

\* the legacy processed_folders.json files that may lie beside the program
LegacyFiles ==
  { NoLegacy,
    [exists |-> TRUE,
     data |-> (FolderPath("Empty") :> "processed") @@ (FolderPath("Trip") :> "pending")],
    [exists |-> TRUE, data |-> (FolderPath("Trip") :> "processed")] }

\* ------------------------------------------------------------------------
\* State
\* ------------------------------------------------------------------------
VARIABLES
  source_parent,     \* TransferApp.source_parent, "" before the first Browse
  tree,              \* TransferApp.tree: the rows [icon, name, status] of the check list
  db_folders,        \* table folders: path -> [album_id, status]
  db_files,          \* table files: path -> [folder_path, status]
  legacy,            \* processed_folders.json
  albums,            \* remote: album title -> number of albums created
  library,           \* remote: media items created, [path, album_id]
  pc,                \* where the application is
  selected_folders,  \* TransferApp.selected_folders (the queue)
  loop,              \* start_transfer locals: [snapshot, idx]
  pf,                \* process_folder locals
  call,              \* observation of the current process_folder call
  hist,              \* observation of earlier calls
  used               \* faults, crashes and calls spent; albums created per folder

vars == <<disk, source_parent, tree, db_folders, db_files, legacy, albums, library, pc,
          selected_folders, loop, pf, call, hist, used>>

PfIdle ==
  [caller |-> "none", folder_path |-> NoPath, album_id |-> NULL,
   files_to_upload |-> <<>>, i |-> 0, j |-> 0,
   upload_tokens |-> <<>>, current_batch_paths |-> <<>>, m |-> 0,
   result |-> FALSE]

LoopIdle == [snapshot |-> <<>>, idx |-> 0, called |-> <<>>]

NoSnap == [hit |-> FALSE, attempted |-> {}, nCommit |-> 0, batch |-> {}]

CallIdle ==
  [nCreate |-> 0, nUpload |-> 0, nCommit |-> 0, attempted |-> {},
   skipped |-> {}, hadRow |-> FALSE, quotaAt |-> NoSnap,
   entryAlbums |-> {}, ok |-> {}, commits |-> <<>>,
   abort |-> "none"]

NoCall == [folder |-> NoPath, result |-> FALSE]

HistIdle == [prev |-> NoCall, skipped |-> [d \in Folders \cup CaseSpellings |-> {}], paused |-> FALSE]

\* nothing spent, no album created yet for any folder, no record raised by
\* the import of a legacy file
UsedNone ==
  [faults |-> 0, crashes |-> 0, calls |-> 0, imported |-> 0, adds |-> 0,
   created |-> [d \in Folders \cup CaseSpellings |-> 0]]

Init ==
  /\ disk \in Disks
  /\ source_parent = ""
  /\ tree = <<>>
  /\ db_folders = <<>>
  /\ db_files = <<>>
  /\ legacy \in LegacyFiles
  /\ albums = [n \in FolderNames |-> 0]
  /\ library = {}
  /\ pc = "off"
  /\ selected_folders = <<>>
  /\ loop = LoopIdle
  /\ pf = PfIdle
  /\ call = CallIdle
  /\ hist = HistIdle
  /\ used = UsedNone

\* ------------------------------------------------------------------------
\* Start-up, queue handling, crash
\* ------------------------------------------------------------------------
\* the status of every row taken from the legacy file: rows it does not
\* list as processed go back to pending
migrate_json_to_db_Resetting(folders, json) ==
  IF json.exists
    THEN [k \in DOMAIN folders |->
            [folders[k] EXCEPT !.status =
               IF k \in DOMAIN json.data /\ json.data[k] = "processed"
                 THEN "processed" ELSE "pending"]]
    ELSE folders

\* migrate_json_to_db: folders the legacy file lists as processed
migrate_json_to_db(folders, json) ==
  LET keys == IF json.exists
                THEN {AsPosix(d) : d \in {k \in DOMAIN json.data : json.data[k] = "processed"}}
                ELSE {}
  IN  [k \in DOMAIN folders |->
         IF k \in keys THEN [folders[k] EXCEPT !.status = "processed"] ELSE folders[k]]

\* the rows whose status the import changes
Imported(folders, json) ==
  {k \in DOMAIN folders : migrate_json_to_db(folders, json)[k] # folders[k]}

\* TransferApp.__init__: open the store, import the legacy file, rename it
Launch ==
  /\ pc = "off"
  /\ db_folders' = migrate_json_to_db(db_folders, legacy)
  /\ legacy' = NoLegacy
  /\ used' = [used EXCEPT !.imported = @ + Cardinality(Imported(db_folders, legacy))]
  /\ pc' = "idle"
  /\ UNCHANGED <<disk, source_parent, tree, db_files, albums, library, selected_folders, loop, pf, call, hist>>

\* line 215: while the program is not running, a processed_folders.json of
\* an earlier installation is put beside it
LegacyAppears(json) ==
  /\ pc = "off"
  /\ ~ legacy.exists
  /\ json.exists
  /\ legacy' = json
  /\ UNCHANGED <<disk, source_parent, tree, db_folders, db_files, albums, library, pc, selected_folders, loop, pf, call, hist, used>>

\* the sub-folders of the parent directory, as os.listdir finds them
Subdirs(parent) == IF parent \in DOMAIN disk THEN DOMAIN disk[parent] ELSE {}

\* select_source: the Browse dialog returned a path; it is kept whether or
\* not it can be listed, and the rows are rebuilt from it
SelectSource(folder) ==
  /\ pc = "idle"
  /\ source_parent' = folder
  /\ tree' = refresh_folder_list(db_folders, folder, Subdirs(folder))
  /\ UNCHANGED <<disk, db_folders, db_files, legacy, albums, library, pc, selected_folders, loop, pf, call, hist, used>>

\* on_tree_click on the first column of a row: the tick is toggled unless
\* the row is shown as Uploaded
OnTreeClick(item_id) ==
  /\ pc = "idle"
  /\ item_id \in 1..Len(tree)
  /\ tree[item_id].status # "Uploaded"
  /\ tree' = [tree EXCEPT ![item_id].icon = IF @ = "[ ]" THEN "[V]" ELSE "[ ]"]
  /\ UNCHANGED <<disk, source_parent, db_folders, db_files, legacy, albums, library, pc, selected_folders, loop, pf, call, hist, used>>

\* select_all_ready: every row shown as Ready is ticked
SelectAllReady ==
  /\ pc = "idle"
  /\ \E n \in 1..Len(tree) : tree[n].status = "Ready" /\ tree[n].icon # "[V]"
  /\ tree' = [n \in 1..Len(tree) |->
                IF tree[n].status = "Ready" THEN [tree[n] EXCEPT !.icon = "[V]"] ELSE tree[n]]
  /\ UNCHANGED <<disk, source_parent, db_folders, db_files, legacy, albums, library, pc, selected_folders, loop, pf, call, hist, used>>

\* the loop of add_selected_to_queue over the rows from item_id on
RECURSIVE AppendTicked(_, _, _, _)
AppendTicked(queue, rows, parent, item_id) ==
  IF item_id > Len(rows) THEN queue
  ELSE LET full_path_str == AsPosix(FolderIn(parent, rows[item_id].name))
       IN  IF rows[item_id].icon = "[V]" /\ full_path_str \notin Range(queue)
             THEN AppendTicked(Append(queue, full_path_str), rows, parent, item_id + 1)
             ELSE AppendTicked(queue, rows, parent, item_id + 1)

\* add_selected_to_queue: every ticked row goes to the end of the queue
\* unless its path is queued already, and every tick is taken off
AddSelectedToQueue ==
  /\ pc = "idle"
  /\ \E n \in 1..Len(tree) : tree[n].icon = "[V]"
  /\ LET queue == AppendTicked(selected_folders, tree, source_parent, 1)
     IN  /\ Len(queue) <= MaxQueue
         /\ selected_folders' = queue
  /\ tree' = [n \in 1..Len(tree) |->
                IF tree[n].icon = "[V]" THEN [tree[n] EXCEPT !.icon = "[ ]"] ELSE tree[n]]
  /\ UNCHANGED <<disk, source_parent, db_folders, db_files, legacy, albums, library, pc, loop, pf, call, hist, used>>

\* remove_from_queue, for one selected row
RemoveFromQueue(idx) ==
  /\ pc = "idle"
  /\ idx \in 1..Len(selected_folders)
  /\ selected_folders' =
       SubSeq(selected_folders, 1, idx - 1)
         \o SubSeq(selected_folders, idx + 1, Len(selected_folders))
  /\ UNCHANGED <<disk, source_parent, tree, db_folders, db_files, legacy, albums, library, pc, loop, pf, call, hist, used>>

\* the process dies: everything in memory is lost, the store and the remote
\* library stay as they are
Crash ==
  /\ pc # "off"
  /\ used.faults < MaxFaults
  /\ used' = [used EXCEPT !.faults = @ + 1, !.crashes = @ + 1]
  /\ pc' = "off"
  /\ selected_folders' = <<>>
  /\ source_parent' = ""
  /\ tree' = <<>>
  /\ loop' = LoopIdle
  /\ pf' = PfIdle
  /\ call' = CallIdle
  /\ hist' = HistIdle
  /\ UNCHANGED <<disk, db_folders, db_files, legacy, albums, library>>

\* ------------------------------------------------------------------------
\* process_folder
\* ------------------------------------------------------------------------
\* lines 460-476 and the branch of 478-492: normalise, read the record,
\* short-circuit on processed, decide whether an album must be created
Enter(p, who) ==
  LET folder_path == AsPosix(p)
      folder_name == Basename(folder_path)
      album_id == existing_album_id(db_folders, folder_path)
  IN  /\ used.calls < MaxCalls
      /\ used' = [used EXCEPT !.calls = @ + 1]
      /\ call' = [CallIdle EXCEPT
                    !.hadRow = folder_path \in DOMAIN db_folders,
                    !.entryAlbums = {db_folders[k].album_id :
                                       k \in {r \in DOMAIN db_folders :
                                                r.parts = folder_path.parts}} \ {NULL}]
      /\ IF AlreadyProcessed(db_folders, folder_path)
           THEN /\ pf' = [PfIdle EXCEPT !.caller = who, !.folder_path = folder_path,
                                        !.result = TRUE]
                /\ pc' = "pf_return"
           ELSE /\ pf' = [PfIdle EXCEPT !.caller = who, !.folder_path = folder_path,
                                        !.album_id = album_id]
                /\ pc' = IF is_album(folder_name) /\ album_id = NULL
                           THEN "pf_create_album" ELSE "pf_walk"
      /\ UNCHANGED <<disk, source_parent, tree, db_folders, db_files, legacy, albums, library, hist>>

\* process_folder called by a client of the engine, with any path: the
\* code never tests that the path is a directory
CallProcessFolder(p) ==
  /\ pc = "idle"
  /\ Enter(p, "direct")
  /\ UNCHANGED <<selected_folders, loop>>

\* line 480: create_album succeeds and returns the id of a new album
CreateAlbumOk ==
  /\ pc = "pf_create_album"
  /\ LET title == Basename(pf.folder_path)
     IN  /\ albums' = [albums EXCEPT ![title] = @ + 1]
         /\ pf' = [pf EXCEPT !.album_id = <<title, albums[title] + 1>>]
  /\ call' = [call EXCEPT !.nCreate = @ + 1]
  /\ used' = [used EXCEPT !.created[pf.folder_path] = @ + 1]
  /\ pc' = "pf_set_album"
  /\ UNCHANGED <<disk, source_parent, tree, db_folders, db_files, legacy, library, selected_folders, loop, hist>>

\* lines 483-488: create_album raises; fatal for the folder whatever the error
CreateAlbumFail(error_msg) ==
  /\ pc = "pf_create_album"
  /\ used.faults < MaxFaults
  /\ used' = [used EXCEPT !.faults = @ + 1]
  /\ call' = [call EXCEPT !.nCreate = @ + 1, !.abort = "create"]
  /\ pf' = [pf EXCEPT !.result = FALSE]
  /\ pc' = "pf_return"
  /\ UNCHANGED <<disk, source_parent, tree, db_folders, db_files, legacy, albums, library, selected_folders, loop, hist>>

\* line 481: db.set_folder_album
SetAlbum ==
  /\ pc = "pf_set_album"
  /\ db_folders' = set_folder_album(db_folders, pf.folder_path, pf.album_id)
  /\ pc' = "pf_walk"
  /\ UNCHANGED <<disk, source_parent, tree, db_files, legacy, albums, library, selected_folders, loop, pf, call, hist, used>>

\* lines 494-520: enumerate, drop uploaded files, finish when nothing is left
WalkFolder ==
  /\ pc = "pf_walk"
  /\ LET todo == files_to_upload(db_files, pf.folder_path)
     IN  IF all_files(pf.folder_path) = <<>> \/ todo = <<>>
           THEN /\ db_folders' = set_folder_status(db_folders, pf.folder_path, "processed")
                /\ pf' = [pf EXCEPT !.result = TRUE]
                /\ pc' = "pf_return"
           ELSE /\ pf' = [pf EXCEPT !.files_to_upload = todo, !.i = 0, !.j = 1]
                /\ pc' = "pf_upload"
                /\ UNCHANGED db_folders
  /\ UNCHANGED <<disk, source_parent, tree, db_files, legacy, albums, library, selected_folders, loop, call, hist, used>>

\* the batch at offset i taken again
AfterBatch_Repeat(p) ==
  [pc |-> "pf_upload",
   pf |-> [p EXCEPT !.j = 1, !.m = 0, !.upload_tokens = <<>>, !.current_batch_paths = <<>>]]

\* the loop header of line 524 after the batch at offset i is over
AfterBatch(p) ==
  IF p.i + BATCH_SIZE < Len(p.files_to_upload)
    THEN [pc |-> "pf_upload",
          pf |-> [p EXCEPT !.i = @ + BATCH_SIZE, !.j = 1, !.m = 0,
                           !.upload_tokens = <<>>, !.current_batch_paths = <<>>]]
    ELSE [pc |-> "pf_finish", pf |-> p]

\* line 543 once the inner loop has gone through the batch
AfterFile(p) ==
  IF p.j > BatchLen(p.files_to_upload, p.i)
    THEN IF p.upload_tokens # <<>>
           THEN [pc |-> "pf_commit", pf |-> p]
           ELSE AfterBatch(p)
    ELSE [pc |-> "pf_upload", pf |-> p]

\* lines 531-534: upload_bytes returns a token
UploadOk ==
  /\ pc = "pf_upload"
  /\ LET file_path == pf.files_to_upload[pf.i + pf.j]
         nxt == AfterFile([pf EXCEPT !.upload_tokens = Append(@, Token(file_path)),
                                     !.current_batch_paths = Append(@, file_path),
                                     !.j = @ + 1])
     IN  /\ pf' = nxt.pf
         /\ pc' = nxt.pc
         /\ call' = [call EXCEPT !.nUpload = @ + 1,
                                 !.attempted = @ \cup {file_path},
                                 !.ok = @ \cup {file_path}]
  /\ UNCHANGED <<disk, source_parent, tree, db_folders, db_files, legacy, albums, library, selected_folders, loop, hist, used>>

\* lines 535-541: upload_bytes raises, from open(), from http.request or at
\* line 178; every exception is caught and its text decides: quota stops
\* the folder, anything else skips the file
UploadFail(failure) ==
  /\ pc = "pf_upload"
  /\ used.faults < MaxFaults
  /\ used' = [used EXCEPT !.faults = @ + 1]
  /\ LET file_path == pf.files_to_upload[pf.i + pf.j]
         error_msg == UploadError(file_path, failure)
         nxt == AfterFile([pf EXCEPT !.j = @ + 1])
         seen == [call EXCEPT !.nUpload = @ + 1, !.attempted = @ \cup {file_path},
                              !.quotaAt =
                                IF QuotaType(failure)
                                  THEN [hit |-> TRUE, attempted |-> call.attempted \cup {file_path},
                                        nCommit |-> call.nCommit,
                                        batch |-> Range(pf.current_batch_paths)]
                                  ELSE @]
     IN  IF IsQuotaError(error_msg)
           THEN /\ pf' = [pf EXCEPT !.result = FALSE]
                /\ pc' = "pf_return"
                /\ call' = [seen EXCEPT !.abort = "upload"]
           ELSE /\ pf' = nxt.pf
                /\ pc' = nxt.pc
                /\ call' = [seen EXCEPT !.skipped = @ \cup {file_path}]
  /\ UNCHANGED <<disk, source_parent, tree, db_folders, db_files, legacy, albums, library, selected_folders, loop, hist>>

\* what a batchCreate request of the current batch carries and how it ended
CommitCall(success) ==
  [offset |-> pf.i, handles |-> pf.upload_tokens, album |-> pf.album_id,
   success |-> success]

\* line 545: batchCreate answers; the results of the tokens in missing carry
\* no mediaItem
CommitOk(missing) ==
  /\ pc = "pf_commit"
  /\ used' = [used EXCEPT !.faults = @ + Cardinality(missing)]
  /\ LET created == batch_create_media_items(pf.upload_tokens, missing)
     IN  library' = library \cup
           {[path |-> t[2], album_id |-> pf.album_id] : t \in Range(created)}
  /\ call' = [call EXCEPT !.nCommit = @ + 1,
                          !.commits = Append(@, CommitCall(TRUE))]
  /\ pf' = [pf EXCEPT !.m = 1]
  /\ pc' = "pf_mark"
  /\ UNCHANGED <<disk, source_parent, tree, db_folders, db_files, legacy, albums, selected_folders, loop, hist>>

\* lines 548-552: batchCreate raises; quota stops the folder, anything else
\* leaves the batch unmarked and goes on
CommitFail(error_msg) ==
  /\ pc = "pf_commit"
  /\ used.faults < MaxFaults
  /\ used' = [used EXCEPT !.faults = @ + 1]
  /\ IF IsQuotaError(Chars[error_msg])
       THEN /\ pf' = [pf EXCEPT !.result = FALSE]
            /\ pc' = "pf_return"
            /\ call' = [call EXCEPT !.nCommit = @ + 1, !.abort = "commit",
                                    !.commits = Append(@, CommitCall(FALSE))]
       ELSE /\ pf' = AfterBatch(pf).pf
            /\ pc' = AfterBatch(pf).pc
            /\ call' = [call EXCEPT !.nCommit = @ + 1,
                                    !.commits = Append(@, CommitCall(FALSE)),
                                    !.skipped = @ \cup Range(pf.current_batch_paths)]
  /\ UNCHANGED <<disk, source_parent, tree, db_folders, db_files, legacy, albums, library, selected_folders, loop, hist>>

\* lines 546-547: one db.mark_file_uploaded of the loop
MarkFile ==
  /\ pc = "pf_mark"
  /\ db_files' = mark_file_uploaded(db_files, pf.current_batch_paths[pf.m], pf.folder_path)
  /\ IF pf.m = Len(pf.current_batch_paths)
       THEN /\ pf' = AfterBatch(pf).pf
            /\ pc' = AfterBatch(pf).pc
       ELSE /\ pf' = [pf EXCEPT !.m = @ + 1]
            /\ pc' = "pf_mark"
  /\ UNCHANGED <<disk, source_parent, tree, db_folders, legacy, albums, library, selected_folders, loop, call, hist, used>>

\* lines 555-557: every batch was gone through
Finish ==
  /\ pc = "pf_finish"
  /\ db_folders' = set_folder_status(db_folders, pf.folder_path, "processed")
  /\ pf' = [pf EXCEPT !.result = TRUE]
  /\ pc' = "pf_return"
  /\ UNCHANGED <<disk, source_parent, tree, db_files, legacy, albums, library, selected_folders, loop, call, hist, used>>

\* the store shows the folder with status processed
RecordedProcessed(d) ==
  d \in DOMAIN db_folders /\ db_folders[d].status = "processed"

\* the store shows the file with status uploaded
RecordedUploaded(f) ==
  f \in DOMAIN db_files /\ db_files[f].status = "uploaded"

\* the image files of a folder, as a set
MediaFiles(d) == Range(all_files(d))

\* remote calls issued so far by the current process_folder call
RemoteCalls == call.nCreate + call.nUpload + call.nCommit

\* what is remembered of a call when it returns
Returned ==
  [prev |-> [folder |-> pf.folder_path, result |-> pf.result],
   skipped |-> [hist.skipped EXCEPT ![pf.folder_path] = call.skipped],
   paused |-> pf.caller = "driver" /\ ~ pf.result]

\* process_folder returns to a client of the engine
ReturnToCaller ==
  /\ pc = "pf_return"
  /\ pf.caller = "direct"
  /\ hist' = Returned
  /\ pf' = PfIdle
  /\ call' = CallIdle
  /\ pc' = "idle"
  /\ UNCHANGED <<disk, source_parent, tree, db_folders, db_files, legacy, albums, library, selected_folders, loop, used>>

\* add_media_items_to_album, called by a client of the module: the remote
\* side puts the items into the album; a request that names an album that
\* does not exist or an item the library does not hold is refused as a
\* whole (execute raises) and changes nothing
AddMediaItemsToAlbum(album_id, media_item_ids) ==
  /\ pc = "idle"
  /\ used.adds < MaxAdds
  /\ IF /\ album_id[2] <= albums[album_id[1]]
        /\ media_item_ids \subseteq library
       THEN /\ library' = (library \ media_item_ids) \cup
                            {[item EXCEPT !.album_id = album_id] : item \in media_item_ids}
            /\ used' = [used EXCEPT !.adds = @ + 1]
       ELSE UNCHANGED <<library, used>>
  /\ UNCHANGED <<disk, source_parent, tree, db_folders, db_files, legacy, albums, pc, selected_folders, loop, pf, call, hist>>

\* ------------------------------------------------------------------------
\* start_transfer
\* ------------------------------------------------------------------------
\* lines 423-433: the queue is not empty, authentication succeeded
StartTransfer ==
  /\ pc = "idle"
  /\ selected_folders # <<>>
  /\ loop' = [snapshot |-> selected_folders, idx |-> 1, called |-> <<>>]
  /\ pc' = "drv_loop"
  /\ UNCHANGED <<disk, source_parent, tree, db_folders, db_files, legacy, albums, library, selected_folders, pf, call, hist, used>>

\* line 434: the next folder of the snapshot is processed
LoopCall ==
  /\ pc = "drv_loop"
  /\ loop.idx <= Len(loop.snapshot)
  /\ Enter(loop.snapshot[loop.idx], "driver")
  /\ loop' = [loop EXCEPT !.called = Append(@, loop.snapshot[loop.idx])]
  /\ UNCHANGED selected_folders

\* the head popped whatever the outcome
QueueAfter_PopAlways(success, queue) == Tail(queue)

\* the last entry popped instead of the head
QueueAfter_PopLast(success, queue) ==
  IF success THEN SubSeq(queue, 1, Len(queue) - 1) ELSE queue

\* if success: ... pop(0)
QueueAfter(success, queue) == IF success THEN Tail(queue) ELSE queue

\* else: ... break
LoopGoesOn(success) == success

\* lines 436-449: the outcome of the folder decides about the queue and the loop
LoopReturn ==
  /\ pc = "pf_return"
  /\ pf.caller = "driver"
  /\ selected_folders' = QueueAfter(pf.result, selected_folders)
  /\ IF LoopGoesOn(pf.result)
       THEN /\ loop' = [loop EXCEPT !.idx = @ + 1]
            /\ pc' = "drv_loop"
            /\ tree' = tree
       ELSE /\ loop' = LoopIdle
            /\ pc' = "idle"
            /\ tree' = refresh_folder_list(db_folders, source_parent, Subdirs(source_parent))
  /\ hist' = Returned
  /\ pf' = PfIdle
  /\ call' = CallIdle
  /\ UNCHANGED <<disk, source_parent, db_folders, db_files, legacy, albums, library, used>>

\* lines 451-455: the snapshot is exhausted; the check list is refreshed
LoopEnd ==
  /\ pc = "drv_loop"
  /\ loop.idx > Len(loop.snapshot)
  /\ loop' = LoopIdle
  /\ pc' = "idle"
  /\ tree' = refresh_folder_list(db_folders, source_parent, Subdirs(source_parent))
  /\ UNCHANGED <<disk, source_parent, db_folders, db_files, legacy, albums, library, selected_folders, pf, call, hist, used>>

Next ==
  \/ Launch
  \/ \E json \in LegacyFiles : LegacyAppears(json)
  \/ \E folder \in Roots : SelectSource(folder)
  \/ \E item_id \in 1..Len(SortedNames) : OnTreeClick(item_id)
  \/ SelectAllReady
  \/ AddSelectedToQueue
  \/ \E idx \in 1..MaxQueue + 1 : RemoveFromQueue(idx)
  \/ Crash
  \/ \E p \in ClientPaths : CallProcessFolder(p)
  \/ \E r \in AddRequests : AddMediaItemsToAlbum(r.album_id, r.media_item_ids)
  \/ CreateAlbumOk
  \/ \E e \in ErrorTexts : CreateAlbumFail(e)
  \/ SetAlbum
  \/ WalkFolder
  \/ UploadOk
  \/ \E failure \in UploadFailures : UploadFail(failure)
  \/ \E missing \in SubsetsUpTo(Range(pf.upload_tokens), MaxFaults - used.faults) :
       CommitOk(missing)
  \/ \E e \in ErrorTexts : CommitFail(e)
  \/ MarkFile
  \/ Finish
  \/ ReturnToCaller
  \/ StartTransfer
  \/ LoopCall
  \/ LoopReturn
  \/ LoopEnd

Spec == Init /\ [][Next]_vars

\* The same program on the disk of the scenario, where process_folder is
\* also called with the folder A in every spelling
Init17 == Init /\ disk = ("src" :> ScenarioFolder)

Next17 ==
  \/ Next
  \/ \E p \in ScenarioPaths : CallProcessFolder(p)

Spec17 == Init17 /\ [][Next17]_vars

\* The steps of a session run and of the process_folder call in it: the
\* thread that runs start_transfer keeps running, and every remote call
\* returns or raises
RunStep ==
  \/ LoopCall
  \/ CreateAlbumOk
  \/ \E e \in ErrorTexts : CreateAlbumFail(e)
  \/ SetAlbum
  \/ WalkFolder
  \/ UploadOk
  \/ \E failure \in UploadFailures : UploadFail(failure)
  \/ \E missing \in SubsetsUpTo(Range(pf.upload_tokens), MaxFaults - used.faults) :
       CommitOk(missing)
  \/ \E e \in ErrorTexts : CommitFail(e)
  \/ MarkFile
  \/ Finish
  \/ LoopReturn
  \/ LoopEnd

\* a source directory of two album folders for the session runs
PairFolders == ("Trip" :> <<"t1.jpg", "t2.PNG">>) @@ ("A" :> <<"f1.jpg">>)

Init23 ==
  /\ disk = ("src" :> PairFolders)
  /\ source_parent = ""
  /\ tree = <<>>
  /\ db_folders = <<>>
  /\ db_files = <<>>
  /\ legacy = NoLegacy
  /\ albums = [n \in FolderNames |-> 0]
  /\ library = {}
  /\ pc = "off"
  /\ selected_folders = <<>>
  /\ loop = LoopIdle
  /\ pf = PfIdle
  /\ call = CallIdle
  /\ hist = HistIdle
  /\ used = UsedNone

Spec23 == Init23 /\ [][Next]_vars /\ WF_vars(RunStep)

\* ------------------------------------------------------------------------
\* Properties
\* ------------------------------------------------------------------------

\* C1: a folder with status processed has every image file of the folder
\* recorded uploaded (or has none).
C1_ProcessedImpliesAllUploaded ==
  \A d \in Folders :
    RecordedProcessed(d) => \A f \in MediaFiles(d) : RecordedUploaded(f)

\* C2: a file is recorded uploaded only if the remote library holds a media
\* item created from it.
C2_UploadedImpliesCommitted ==
  \A f \in DOMAIN db_files :
    RecordedUploaded(f) => \E item \in library : item.path = f

\* C3: whenever process_folder returns for the second time in succession on
\* a folder and the first call returned true, the second call returns true
\* and has issued no remote call (no create_album, upload or commit).
C3_IdempotentAfterTrue ==
  (pc = "pf_return" /\ hist.prev.folder = pf.folder_path /\ hist.prev.result)
    => (pf.result /\ RemoteCalls = 0)

\* the store shows the file as uploaded, under some spelling of its path
UploadedBefore(f) ==
  \E k \in DOMAIN db_files : k.parts = f.parts /\ db_files[k].status = "uploaded"

\* C4: every upload is of a file that the store does not show as uploaded,
\* and every commit carries only such files, over every sequence of calls
\* and crashes.
C4_AtMostOnceAfterMark ==
  [][ /\ (pc = "pf_upload" /\ call'.nUpload > call.nUpload)
          => ~ UploadedBefore(pf.files_to_upload[pf.i + pf.j])
      /\ (pc = "pf_commit" /\ call'.nCommit > call.nCommit)
          => \A f \in Range(pf.current_batch_paths) : ~ UploadedBefore(f)
    ]_vars

\* C5: no folder gets a second album on the remote side, whatever the
\* crashes: create_album has succeeded at most once for every folder path.
C5_NoDuplicateAlbum ==
  \A d \in Folders : used.created[d] <= 1

\* C6: when process_folder returns true, the store shows the folder
\* processed.
C6_TrueImpliesProcessed ==
  (pc = "pf_return" /\ pf.result) => RecordedProcessed(pf.folder_path)

\* C7: a call that returns true has attempted every file that the previous
\* call on the same folder skipped after a non-quota failure.
C7_SkippedRetriedNextRun ==
  (pc = "pf_return" /\ pf.result)
    => hist.skipped[pf.folder_path] \subseteq call.attempted

\* C8: once the upload endpoint has refused a file with a quota failure (the
\* status of too many requests, or a body that names the quota), the call
\* has returned false, no further upload and no further commit were issued,
\* and the files of the batch uploaded before it are not recorded uploaded.
C8_QuotaShortCircuit ==
  call.quotaAt.hit =>
    /\ pc = "pf_return"
    /\ ~ pf.result
    /\ call.attempted = call.quotaAt.attempted
    /\ call.nCommit = call.quotaAt.nCommit
    /\ \A f \in call.quotaAt.batch : ~ RecordedUploaded(f)

\* C9: when process_folder returns false to the session loop, the loop ends,
\* the queue is left as it is and the failed folder is its head.
C9_DriverHalt ==
  [][ (pc = "pf_return" /\ pf.caller = "driver" /\ ~ pf.result /\ pc' # "off")
        => /\ pc' = "idle"
           /\ loop' = LoopIdle
           /\ selected_folders' = selected_folders
           /\ selected_folders # <<>>
           /\ Head(selected_folders) = pf.folder_path
    ]_vars

\* a session was paused with another folder waiting behind the failed one
C9_Witness ==
  /\ pc = "idle"
  /\ hist.paused
  /\ Len(selected_folders) >= 2
  /\ hist.prev.folder = Head(selected_folders)

\* C10: a call on a folder without image files and without a prior record
\* returns true, leaves the folder recorded processed and issues no remote
\* call.
C10_EmptyFolder ==
  (pc = "pf_return" /\ MediaFiles(pf.folder_path) = {} /\ ~ call.hadRow)
    => (pf.result /\ RecordedProcessed(pf.folder_path) /\ RemoteCalls = 0)

\* the album ids the store holds for a folder, under every spelling of its
\* path
StoredAlbums(folder_path) ==
  {db_folders[k].album_id :
     k \in {r \in DOMAIN db_folders : r.parts = folder_path.parts}} \ {NULL}

\* C11: a call on a folder for which the store held an album id at entry
\* never calls create_album, issues every commit with a stored album id,
\* and the album ids stored for the folder stay as they were.
C11_AlbumReuse ==
  call.entryAlbums # {} =>
    /\ call.nCreate = 0
    /\ \A n \in 1..Len(call.commits) : call.commits[n].album \in call.entryAlbums
    /\ StoredAlbums(pf.folder_path) = call.entryAlbums

\* C12: no step, the import of a legacy file and the steps of a failing
\* call included, removes a folder or file record, takes a file back from
\* uploaded or a folder back from processed.
C12_ProgressKept ==
  [][ /\ \A d \in DOMAIN db_folders :
           /\ d \in DOMAIN db_folders'
           /\ db_folders[d].status = "processed" => db_folders'[d].status = "processed"
      /\ \A f \in DOMAIN db_files :
           /\ f \in DOMAIN db_files'
           /\ db_files[f].status = "uploaded" => db_files'[f].status = "uploaded"
    ]_vars

\* the import of a legacy file has set a record to processed while one file
\* of the folder was recorded uploaded and another was not; both file
\* records and the folder record were kept
C12_Witness ==
  /\ pc = "idle"
  /\ used.imported > 0
  /\ \E d \in DOMAIN db_folders :
       /\ RecordedProcessed(d)
       /\ \E f \in MediaFiles(d) : RecordedUploaded(f)
       /\ \E g \in MediaFiles(d) : ~ RecordedUploaded(g)

\* C13: a call on a folder that the store shows as processed, under some
\* spelling of its path, returns true in its first step, with no remote
\* call and no write to the store.
C13_ShortCircuit ==
  [][ (/\ used'.calls > used.calls
       /\ \E k \in DOMAIN db_folders :
            k.parts = pf'.folder_path.parts /\ db_folders[k].status = "processed")
        => /\ pc' = "pf_return"
           /\ pf'.result
           /\ call'.nCreate + call'.nUpload + call'.nCommit = 0
           /\ UNCHANGED <<db_folders, db_files, albums, library>>
    ]_vars

\* C14: one call on the fresh album folder A = [f1.jpg, f2.png, f3.mp4]
\* with every remote call succeeding issues one create_album, one upload per
\* file and one commit of 3 handles, and leaves the three files recorded
\* uploaded and the folder processed.
C14_FullSuccess ==
  (pc = "pf_return" /\ pf.folder_path = FolderPath("A")
     /\ ~ call.hadRow /\ used.faults = 0)
    => /\ call.nCreate = 1
       /\ call.attempted = Range(Walk(FolderPath("A")))
       /\ call.nUpload = 3
       /\ Len(call.commits) = 1
       /\ Len(call.commits[1].handles) = 3
       /\ \A f \in Range(Walk(FolderPath("A"))) : RecordedUploaded(f)
       /\ RecordedProcessed(FolderPath("A"))

\* the folders of the trees whose name carries the loose-media prefix in
\* some letter case
LooseMediaNames == {"Photos from 2019", "photos from 2020"}

\* C15: for a folder named with the loose-media prefix, under whatever
\* parent and spelling, no album is ever created, no album id is stored,
\* and every commit of its files goes without album id.
C15_NonAlbumFolder ==
  /\ \A n \in LooseMediaNames : albums[n] = 0
  /\ \A d \in DOMAIN db_folders :
       Basename(d) \in LooseMediaNames => db_folders[d].album_id = NULL
  /\ (Len(pf.folder_path.parts) > 0 /\ Basename(pf.folder_path) \in LooseMediaNames) =>
       /\ pc # "pf_create_album"
       /\ pf.album_id = NULL
       /\ call.nCreate = 0
       /\ \A k \in 1..Len(call.commits) : call.commits[k].album = NULL

\* a commit of a loose-media folder has put an item into the library
C15_Witness ==
  /\ pc = "pf_mark"
  /\ Basename(pf.folder_path) \in LooseMediaNames
  /\ Len(call.commits) = 1
  /\ \E item \in library :
       item.path.parts[2] = "Photos from 2019" /\ item.album_id = NULL

\* C16: the start-up that imports the legacy file leaves every folder the
\* file lists as processed recorded as processed in the store, whether or
\* not the store had a record of it, and the legacy file is gone afterwards.
C16_LegacyImport ==
  [][ (legacy.exists /\ pc = "off" /\ pc' = "idle") =>
        /\ ~ legacy'.exists
        /\ \A d \in DOMAIN legacy.data :
             legacy.data[d] = "processed" =>
               /\ AsPosix(d) \in DOMAIN db_folders'
               /\ db_folders'[AsPosix(d)].status = "processed" ]_vars

\* C17: the store never holds two records for one folder or one file: keys
\* that spell the same path are one key.
C17_KeyUniqueness ==
  /\ \A k1, k2 \in DOMAIN db_folders : k1.parts = k2.parts => k1 = k2
  /\ \A k1, k2 \in DOMAIN db_files : k1.parts = k2.parts => k1 = k2

\* C18: when process_folder returns false the folder is not recorded
\* processed; a failed album creation leaves both tables as they were at
\* entry; a folder becomes processed only at the end of a call in which
\* every file to upload was attempted and no fatal abort happened.
C18_FalseLeavesResumable ==
  [][ /\ (pc # "pf_return" /\ pc' = "pf_return" /\ ~ pf'.result) =>
           /\ ~ (/\ pf'.folder_path \in DOMAIN db_folders'
                 /\ db_folders'[pf'.folder_path].status = "processed")
           /\ pc \in {"pf_create_album", "pf_upload", "pf_commit"}
           /\ pc = "pf_create_album" => UNCHANGED <<db_folders, db_files>>
      /\ pc' = "pf_create_album" => UNCHANGED <<db_folders, db_files>>
      /\ \A d \in DOMAIN db_folders' :
           (pc # "off" /\ db_folders'[d].status = "processed"
              /\ ~ RecordedProcessed(d)) =>
             /\ d = pf.folder_path
             /\ pc \in {"pf_walk", "pf_finish"}
             /\ call.attempted = Range(pf.files_to_upload)
             /\ pc' = "pf_return" /\ pf'.result ]_vars

\* a call has returned false on a quota failure after some of its files
\* were committed and marked
C18_Witness ==
  /\ pc = "pf_return"
  /\ ~ pf.result
  /\ pf.folder_path \in DOMAIN db_folders
  /\ call.nCommit > 0
  /\ \E f \in MediaFiles(pf.folder_path) : RecordedUploaded(f)

\* C19: while process_folder of an album folder is at an upload or a
\* commit, the store already holds the album id the call uses, and every
\* commit issued so far carried that id.
C19_AlbumStoredFirst ==
  (/\ Len(pf.folder_path.parts) > 0
   /\ Basename(pf.folder_path) \notin LooseMediaNames
   /\ \/ pc \in {"pf_upload", "pf_commit", "pf_mark", "pf_finish"}
      \/ call.nUpload + call.nCommit > 0) =>
    /\ pf.folder_path \in DOMAIN db_folders
    /\ pf.album_id # NULL
    /\ db_folders[pf.folder_path].album_id = pf.album_id
    /\ \A k \in 1..Len(call.commits) : call.commits[k].album = pf.album_id

\* a call under the spelling of other letter case, on a folder the store
\* knows under its plain spelling, has created its own album and is about to
\* commit its first batch
C19_Witness ==
  /\ pc = "pf_commit"
  /\ call.nCreate = 1
  /\ call.nCommit = 0
  /\ Basename(pf.folder_path) \notin LooseMediaNames
  /\ pf.folder_path.style = "other_case"
  /\ [pf.folder_path EXCEPT !.style = "plain"] \in DOMAIN db_folders

\* the batches of the current call: their offsets, their files, the files
\* of a batch whose upload returned a token, and whether the call is through
\* with the batch (uploads, commit and marking)
BatchOffsets ==
  {o \in 0..Len(pf.files_to_upload) :
     o % BATCH_SIZE = 0 /\ o < Len(pf.files_to_upload) /\ o <= pf.i}

BatchFiles(o) ==
  SubSeq(pf.files_to_upload, o + 1, o + BatchLen(pf.files_to_upload, o))

BatchOk(o) == SelectSeq(BatchFiles(o), LAMBDA f : f \in call.ok)

BatchOver(o) == o < pf.i \/ pc \in {"pf_finish", "pf_return"}

CommitsOf(o) == {k \in 1..Len(call.commits) : call.commits[k].offset = o}

\* the parts of the commit shape other than the condition under which a
\* batch is committed: a commit carries 1..BATCH_SIZE handles, they are the
\* handles of the successful uploads of its own batch in order, batches are
\* taken in enumeration order, and the files of the call recorded uploaded
\* are the successfully uploaded files of the batches whose commit succeeded.
CommitShape ==
  /\ \A k \in 1..Len(call.commits) :
       LET c == call.commits[k]
       IN  /\ Len(c.handles) \in 1..BATCH_SIZE
           /\ c.offset \in BatchOffsets
           /\ c.handles = [n \in 1..Len(BatchOk(c.offset)) |-> Token(BatchOk(c.offset)[n])]
           /\ \A l \in 1..Len(call.commits) : k < l => c.offset < call.commits[l].offset
  /\ pf.files_to_upload # <<>> =>
       call.attempted = {pf.files_to_upload[n] : n \in 1..Cardinality(call.attempted)}
  /\ \A o \in BatchOffsets :
       \A f \in Range(BatchFiles(o)) :
         /\ RecordedUploaded(f) =>
              /\ f \in call.ok
              /\ \E k \in CommitsOf(o) : call.commits[k].success
         /\ (BatchOver(o) /\ f \in call.ok
               /\ \E k \in CommitsOf(o) : call.commits[k].success) => RecordedUploaded(f)

\* C20: a batch the call is through with was committed if and only if at
\* least one of its uploads succeeded and the batch was not cut short by a
\* quota failure of an upload (the short-circuit of C8); the commits have
\* the shape above.
C20_CommitIffBatchCompleted ==
  /\ CommitShape
  /\ \A o \in BatchOffsets :
       BatchOver(o) =>
         (CommitsOf(o) # {} <=>
            (BatchOk(o) # <<>>
               /\ ~ (call.abort = "upload" /\ call.quotaAt.hit /\ o = pf.i)))

\* C21: during a session run the queue is the part of the queue at the start
\* of the run from the folder in turn onwards; the loop moves on only after
\* a true return and then removes the head, which is the folder just
\* processed; after a false return the queue stays as it is; no step of the
\* run changes the queue in any other way.
C21_QueueAlignment ==
  [][ /\ (pc' # "off" /\ loop'.idx > 0) =>
           selected_folders' = SubSeq(loop'.snapshot, loop'.idx, Len(loop'.snapshot))
      /\ (pc # "idle" /\ pc' # "off" /\ selected_folders' # selected_folders) =>
           /\ pc = "pf_return" /\ pf.caller = "driver" /\ pf.result
           /\ Head(selected_folders) = pf.folder_path
           /\ selected_folders' = Tail(selected_folders)
      /\ (loop.idx > 0 /\ loop'.idx > loop.idx) =>
           /\ pf.result
           /\ loop.snapshot[loop.idx] = pf.folder_path
           /\ loop'.idx = loop.idx + 1
           /\ loop'.snapshot = loop.snapshot
      /\ (pc = "pf_return" /\ pf.caller = "driver" /\ ~ pf.result /\ pc' # "off") =>
           /\ selected_folders' = SubSeq(loop.snapshot, loop.idx, Len(loop.snapshot))
           /\ Head(selected_folders') = pf.folder_path ]_vars

\* the first folder of a queue of two returned true and was removed, the
\* second is in turn
C21_Witness ==
  /\ pc = "drv_loop"
  /\ Len(loop.snapshot) = 2
  /\ loop.idx = 2
  /\ selected_folders = <<loop.snapshot[2]>>
  /\ hist.prev.folder = loop.snapshot[1]
  /\ hist.prev.result

\* C22: every folder record of the store belongs to a folder for which
\* create_album succeeded and carries an id that call returned; so a
\* processed folder has such a record, and a loose-media folder has no
\* record at all.
C22_FolderRowsFromAlbums ==
  \A d \in DOMAIN db_folders :
    /\ Len(d.parts) = 2
    /\ Basename(d) \notin LooseMediaNames
    /\ db_folders[d].album_id # NULL
    /\ db_folders[d].album_id[1] = Basename(d)
    /\ db_folders[d].album_id[2] \in 1..albums[Basename(d)]
    /\ db_folders[d].status \in {"pending", "processed"}

\* a path that names no directory is recorded processed after its album was
\* created, and a call on a loose-media folder has committed files and
\* returned true without a record of the folder
C22_Witness ==
  /\ pc = "pf_return"
  /\ pf.result
  /\ Basename(pf.folder_path) \in LooseMediaNames
  /\ call.nCommit > 0
  /\ pf.folder_path \notin DOMAIN db_folders
  /\ \E d \in DOMAIN db_folders : db_folders[d].status = "processed" /\ ~ OnDisk(d)

\* within a session run no folder is passed to process_folder twice; within
\* a call no file is uploaded twice and no batch committed twice
NoRetry ==
  /\ \A a, b \in 1..Len(loop.called) : loop.called[a] = loop.called[b] => a = b
  /\ Len(loop.called) <= Len(loop.snapshot)
  /\ call.nUpload = Cardinality(call.attempted)
  /\ call.nUpload <= Len(pf.files_to_upload)
  /\ call.nCommit = Len(call.commits)
  /\ \A o \in BatchOffsets : Cardinality(CommitsOf(o)) <= 1

\* C23: a session run that is started comes to its end (or the process
\* dies), and no call is repeated inside it.
C23_TerminatesWithoutRetry ==
  /\ [] NoRetry
  /\ (pc = "drv_loop" /\ used.calls + Len(loop.snapshot) - Len(loop.called) <= MaxCalls)
       ~> (pc \in {"idle", "off"})

\* a run over two folders has called process_folder for the second one
\* after an upload of the first one failed
C23_Witness ==
  /\ Len(loop.snapshot) = 2
  /\ Len(loop.called) = 2
  /\ pc = "pf_upload"
  /\ hist.skipped[loop.snapshot[1]] # {}

====
